---------------------------- MODULE Spec2Model ----------------------------
(* A model of balpan's loader library (src/lib.rs): the TOML merge        *)
(* (merge_toml_values), the runtime directory list (RUNTIME_DIRS), the    *)
(* runtime file lookup and the configuration file cell (CONFIG_FILE),     *)
(* and of the annotation of a source file exercised by                    *)
(* tests/integration_test/python_test/django_case_test.rs.                *)
EXTENDS Integers, Sequences, FiniteSets, TLC

VARIABLES
    left,           \* merge_toml_values: the `left` argument of the last merge
    right,          \* merge_toml_values: the `right` argument of the last merge
    merge_depth,    \* merge_toml_values: the `merge_depth` argument
    merged,         \* the value the last merge returned (NoVal before any merge)
    pending,        \* configuration layers not merged yet, in order
    applied,        \* configuration layers merged so far, built-in first
    env_cargo,      \* CARGO_MANIFEST_DIR: {} when unset, {path} when set
    env_runtime,    \* BALPAN_RUNTIME: {} when unset, {path} when set
    env_config,     \* BALPAN_CONFIG_DIR: {} when unset, {path} when set
    base_strategy,  \* choose_base_strategy(): {} for Err, {its config_dir()} for Ok
    exe,            \* std::env::current_exe(): {} for Err, {path} for Ok
    fs,             \* the paths that exist in the file system
    RUNTIME_DIRS,   \* the Lazy<Vec<PathBuf>>: uninit, init with its list, or poisoned
    init_config,    \* BALPAN_CONFIG_DIR as it was when RUNTIME_DIRS was initialized
    rel_path,       \* the argument of the last runtime_file call
    rt_file,        \* what the last runtime_file call returned ({} if it panicked)
    CONFIG_FILE,    \* the OnceCell<PathBuf>: {} when empty, {path} when set
    call_pc,        \* per thread: where its initialize_config_file call stands
    call_file,      \* per thread: the local `config_file` of its call
    calls,          \* how many initialize_config_file calls have started
    first_set,      \* the argument of the first CONFIG_FILE.set to run ({} before)
    cf_result,      \* what the last config_file call returned ({} if it panicked)
    source_code,    \* the lines of the file to annotate
    annotated,      \* the lines of the annotated output (<<>> before the analysis)
    apc,            \* "edit" while the file is written, "done" after the analysis
    op              \* the operation that made the last step

mergeVars == <<left, right, merge_depth, merged, pending, applied>>

envVars == <<env_cargo, env_runtime, env_config, base_strategy, exe, fs>>

runtimeVars == <<RUNTIME_DIRS, init_config, rel_path, rt_file>>

configVars == <<CONFIG_FILE, call_pc, call_file, calls, first_set, cf_result>>

annotateVars == <<source_code, annotated, apc>>

vars == <<mergeVars, envVars, runtimeVars, configVars, annotateVars, op>>

(***************************************************************************)
(* toml::Value.  Every value is a record of the same shape, so that any    *)
(* two values can be compared: t is the variant, and only the field of     *)
(* that variant is meaningful.                                             *)
(***************************************************************************)
EmptyMap == [k \in {} |-> 0]

NoVal == [t |-> "none", s |-> "", i |-> 0, a |-> <<>>, m |-> EmptyMap]

Str(x) == [t |-> "string", s |-> x, i |-> 0, a |-> <<>>, m |-> EmptyMap]

Integer(n) == [t |-> "integer", s |-> "", i |-> n, a |-> <<>>, m |-> EmptyMap]

Array(items) == [t |-> "array", s |-> "", i |-> 0, a |-> items, m |-> EmptyMap]

Table(map) == [t |-> "table", s |-> "", i |-> 0, a |-> <<>>, m |-> map]

\* a one-entry map, and the union of two maps with disjoint keys
Entry(k, v) == [j \in {k} |-> v]

Keys(v) == DOMAIN v.m

\* Option<&str>: the empty set is None, {x} is Some(x)
get_name(v) ==
    IF v.t = "table" /\ "name" \in DOMAIN v.m /\ v.m["name"].t = "string"
    THEN {v.m["name"].s}
    ELSE {}

\* Iterator::position: the first index whose element satisfies the test, 0 for None
position(items, r_name) ==
    IF \E p \in 1..Len(items) : get_name(items[p]) = r_name
    THEN CHOOSE p \in 1..Len(items) :
            /\ get_name(items[p]) = r_name
            /\ \A q \in 1..(p - 1) : get_name(items[q]) # r_name
    ELSE 0

\* Vec::remove: the vector without the element at l_pos
remove(items, l_pos) ==
    SubSeq(items, 1, l_pos - 1) \o SubSeq(items, l_pos + 1, Len(items))

RECURSIVE merge_toml_values(_, _, _)
RECURSIVE toml_array_value(_, _, _)
RECURSIVE toml_table_value(_, _, _)
RECURSIVE array_loop(_, _, _)
RECURSIVE array_loop_no_remove(_, _, _)
RECURSIVE array_loop_in_place(_, _, _)

\* array_loop with the matched left item left where it is
array_loop_no_remove(depth, left_items, right_items) ==
    IF right_items = <<>>
    THEN left_items
    ELSE LET r_val == Head(right_items)
             l_pos == IF get_name(r_val) = {} THEN 0
                      ELSE position(left_items, get_name(r_val))
             m_val == IF l_pos = 0 THEN r_val
                      ELSE merge_toml_values(left_items[l_pos], r_val, depth - 1)
         IN  array_loop_no_remove(depth, Append(left_items, m_val), Tail(right_items))

\* array_loop with the merged value written over the matched left item
array_loop_in_place(depth, left_items, right_items) ==
    IF right_items = <<>>
    THEN left_items
    ELSE LET r_val == Head(right_items)
             l_pos == IF get_name(r_val) = {} THEN 0
                      ELSE position(left_items, get_name(r_val))
         IN  array_loop_in_place(
                 depth,
                 IF l_pos = 0
                 THEN Append(left_items, r_val)
                 ELSE [left_items EXCEPT
                          ![l_pos] = merge_toml_values(left_items[l_pos], r_val, depth - 1)],
                 Tail(right_items))

\* the loop of toml_array_value over right_items: each right value is merged
\* onto the first left item of its name, which is removed, and pushed last
array_loop(depth, left_items, right_items) ==
    IF right_items = <<>>
    THEN left_items
    ELSE LET r_val == Head(right_items)
             l_pos == IF get_name(r_val) = {} THEN 0
                      ELSE position(left_items, get_name(r_val))
             rest  == IF l_pos = 0 THEN left_items ELSE remove(left_items, l_pos)
             m_val == IF l_pos = 0 THEN r_val
                      ELSE merge_toml_values(left_items[l_pos], r_val, depth - 1)
         IN  array_loop(depth, Append(rest, m_val), Tail(right_items))

\* toml_array_value without the override of nested arrays
toml_array_value_always_merge(depth, left_items, right_items) ==
    Array(array_loop(depth, left_items, right_items))

toml_array_value(depth, left_items, right_items) ==
    IF depth = 0
    THEN Array(right_items)
    ELSE Array(array_loop(depth, left_items, right_items))

\* toml_table_value that drops the keys of the left table only
toml_table_value_right_keys(depth, left_map, right_map) ==
    IF depth = 0
    THEN Table(right_map)
    ELSE Table([k \in DOMAIN right_map |->
                    IF k \in DOMAIN left_map
                    THEN merge_toml_values(left_map[k], right_map[k], depth - 1)
                    ELSE right_map[k]])

toml_table_value(depth, left_map, right_map) ==
    IF depth = 0
    THEN Table(right_map)
    ELSE Table([k \in (DOMAIN left_map) \cup (DOMAIN right_map) |->
                    IF k \in DOMAIN right_map
                    THEN IF k \in DOMAIN left_map
                         THEN merge_toml_values(left_map[k], right_map[k], depth - 1)
                         ELSE right_map[k]
                    ELSE left_map[k]])

\* merge_toml_values without the arm for two tables
merge_toml_values_no_tables(l, r, depth) ==
    IF l.t = "array" /\ r.t = "array"
    THEN toml_array_value(depth, l.a, r.a)
    ELSE r

merge_toml_values(l, r, depth) ==
    IF l.t = "array" /\ r.t = "array"
    THEN toml_array_value(depth, l.a, r.a)
    ELSE IF l.t = "table" /\ r.t = "table"
         THEN toml_table_value(depth, l.m, r.m)
         ELSE r

(***************************************************************************)
(* The parts of the state a specification does not exercise stay at rest.  *)
(***************************************************************************)
EnvIdle ==
    /\ env_cargo = {}
    /\ env_runtime = {}
    /\ env_config = {}
    /\ base_strategy = {}
    /\ exe = {}
    /\ fs = {}

RuntimeIdle ==
    /\ RUNTIME_DIRS = [state |-> "uninit", dirs |-> <<>>]
    /\ init_config = {}
    /\ rel_path = <<>>
    /\ rt_file = {}

ConfigIdle ==
    /\ CONFIG_FILE = {}
    /\ call_pc = <<>>
    /\ call_file = <<>>
    /\ calls = 0
    /\ first_set = {}
    /\ cf_result = {}

AnnotateIdle ==
    /\ source_code = <<>>
    /\ annotated = <<>>
    /\ apc = "idle"

MergeIdle ==
    /\ left = NoVal
    /\ right = NoVal
    /\ merge_depth = 0
    /\ merged = NoVal
    /\ pending = <<>>
    /\ applied = <<>>

(***************************************************************************)
(* Inputs of the merge.                                                    *)
(***************************************************************************)
MaxLeftLen == 2

MaxRightLen == 2

MaxDepth == 3

\* all sequences over S of length at most n
SeqsUpTo(S, n) == UNION {[1..k -> S] : k \in 0..n}

Names == {"nix", "ts"}

\* the `name` key of a language entry: absent, or one of Names
NameMaps == {EmptyMap} \cup {Entry("name", Str(n)) : n \in Names}

LeftPayloads ==
    { Entry("a", Integer(1)),
      Entry("a", Integer(1)) @@ Entry("indent", Table(Entry("w", Integer(1)))) }

RightPayloads ==
    { Entry("b", Integer(2)),
      Entry("a", Integer(3)) @@ Entry("indent", Table(Entry("u", Integer(2)))) }

LeftEntries == {Table(n @@ p) : n \in NameMaps, p \in LeftPayloads}

RightEntries == {Table(n @@ p) : n \in NameMaps, p \in RightPayloads}

InitArray ==
    /\ left \in {Array(q) : q \in SeqsUpTo(LeftEntries, MaxLeftLen)}
    /\ right \in {Array(q) : q \in SeqsUpTo(RightEntries, MaxRightLen)}
    /\ merge_depth \in 0..MaxDepth
    /\ merged = NoVal
    /\ pending = <<>>
    /\ applied = <<>>
    /\ EnvIdle
    /\ RuntimeIdle
    /\ ConfigIdle
    /\ AnnotateIdle
    /\ op = "none"

\* one call merge_toml_values(left, right, merge_depth)
Merge ==
    /\ merged = NoVal
    /\ pending = <<>>
    /\ applied = <<>>
    /\ merged' = merge_toml_values(left, right, merge_depth)
    /\ UNCHANGED <<left, right, merge_depth, pending, applied, envVars, runtimeVars, configVars, annotateVars, op>>

SpecArray == InitArray /\ [][Merge]_vars

(***************************************************************************)
(* Tables as inputs: every key of TableKeys is absent or bound.            *)
(***************************************************************************)
TableKeys == {"a", "b", "c"}

LeftVals == {Integer(1), Table(Entry("w", Integer(1))), Array(<<Integer(1)>>)}

RightVals == {Integer(2), Table(Entry("u", Integer(2))), Array(<<Integer(2)>>)}

\* the maps binding some of the keys K to values of V
MapsOver(K, V) ==
    { [k \in {j \in K : f[j] # NoVal} |-> f[k]] : f \in [K -> V \cup {NoVal}] }

InitTable ==
    /\ left \in {Table(f) : f \in MapsOver(TableKeys, LeftVals)}
    /\ right \in {Table(f) : f \in MapsOver(TableKeys, RightVals)}
    /\ merge_depth \in 0..MaxDepth
    /\ merged = NoVal
    /\ pending = <<>>
    /\ applied = <<>>
    /\ EnvIdle
    /\ RuntimeIdle
    /\ ConfigIdle
    /\ AnnotateIdle
    /\ op = "none"

SpecTable == InitTable /\ [][Merge]_vars

(***************************************************************************)
(* Documents as inputs: a table whose `language` key holds the array of    *)
(* language entries.                                                       *)
(***************************************************************************)
\* the depth the language documents are merged at
LanguageMergeDepth == 3

Document(entries) == Table(Entry("language", Array(entries)))

Languages(doc) == doc.m["language"].a

LeftServers ==
    { Entry("roots", Array(<<Table(Entry("name", Str("x")) @@ Entry("a", Integer(1)))>>)),
      Entry("language-server",
            Table(Entry("command", Str("node")) @@
                  Entry("args", Array(<<Str("a"), Str("b")>>)))) }

RightServers ==
    { Entry("roots", Array(<<Table(Entry("name", Str("x")) @@ Entry("b", Integer(2)))>>)),
      Entry("language-server",
            Table(Entry("command", Str("deno")) @@
                  Entry("args", Array(<<Str("lsp")>>)))) }

LeftLanguages == {Table(n @@ p) : n \in NameMaps, p \in LeftServers}

RightLanguages == {Table(n @@ p) : n \in NameMaps, p \in RightServers}

InitDoc ==
    /\ left \in {Document(q) : q \in SeqsUpTo(LeftLanguages, MaxLeftLen)}
    /\ right \in {Document(q) : q \in SeqsUpTo(RightLanguages, MaxRightLen)}
    /\ merge_depth \in 0..MaxDepth
    /\ merged = NoVal
    /\ pending = <<>>
    /\ applied = <<>>
    /\ EnvIdle
    /\ RuntimeIdle
    /\ ConfigIdle
    /\ AnnotateIdle
    /\ op = "none"

SpecDoc == InitDoc /\ [][Merge]_vars

(***************************************************************************)
(* The three configuration layers: the built-in document is the first      *)
(* result, and the user and the workspace document are merged onto it in   *)
(* this order at LanguageMergeDepth.                                       *)
(***************************************************************************)
MaxLayerLen == 2

LayerEntries(payload) == {Table(n @@ payload) : n \in NameMaps}

LayerDocs(payload) ==
    {Document(q) : q \in SeqsUpTo(LayerEntries(payload), MaxLayerLen)}

InitLayers ==
    /\ \E builtin \in LayerDocs(Entry("a", Integer(1))) :
          /\ merged = builtin
          /\ applied = <<builtin>>
    /\ \E user \in LayerDocs(Entry("b", Integer(2))),
          workspace \in LayerDocs(Entry("a", Integer(3))) :
          pending = <<user, workspace>>
    /\ left = NoVal
    /\ right = NoVal
    /\ merge_depth = LanguageMergeDepth
    /\ EnvIdle
    /\ RuntimeIdle
    /\ ConfigIdle
    /\ AnnotateIdle
    /\ op = "none"

\* the next layer is merged as `right` onto the result so far
LoadLayer ==
    /\ pending # <<>>
    /\ left' = merged
    /\ right' = Head(pending)
    /\ merged' = merge_toml_values(merged, Head(pending), merge_depth)
    /\ pending' = Tail(pending)
    /\ applied' = Append(applied, Head(pending))
    /\ UNCHANGED <<merge_depth, envVars, runtimeVars, configVars, annotateVars, op>>

SpecLayers == InitLayers /\ [][LoadLayer]_vars

(***************************************************************************)
(* Paths.  A PathBuf is the sequence of its components; an absolute path   *)
(* starts with the root component "/".                                     *)
(***************************************************************************)
is_absolute(path) == path # <<>> /\ path[1] = "/"

\* Path::join: an absolute argument replaces the base
join(base, path) == IF is_absolute(path) THEN path ELSE base \o path

\* Path::parent: None ({}) for the root and for the empty path
parent(path) ==
    IF path = <<>> \/ path = <<"/">> THEN {} ELSE {SubSeq(path, 1, Len(path) - 1)}

\* the one element of a Some
the(option) == CHOOSE x \in option : TRUE

RT_DIR == <<"runtime">>

CargoDirs == {<<"/", "ws", "crate">>, <<"/">>}

RuntimeEnvDirs == {<<"/", "opt", "rt">>}

ConfigEnvDirs == {<<"/", "cfg">>, <<"/", "tmp">>}

StrategyDirs == {<<"/", "home", ".config">>}

\* the running program: a symbolic link, and the file it points to
ExeLink == <<"/", "usr", "bin", "balpan">>

ExeFile == <<"/", "opt", "balpan", "balpan">>

\* std::fs::canonicalize on the path of the executable
canonicalize(path) == IF path = ExeLink THEN {ExeFile} ELSE {path}

\* get_dir(StrategyType::Config): {} when it panics for want of a strategy
config_dir ==
    IF env_config # {}
    THEN env_config
    ELSE IF base_strategy = {} THEN {} ELSE {the(base_strategy) \o <<"balpan">>}

\* prioritize_runtime_dirs with BALPAN_RUNTIME pushed before the
\* configuration directory
prioritize_runtime_dirs_env_first ==
    LET cargo   == IF env_cargo = {} THEN <<>>
                   ELSE <<join(the(parent(the(env_cargo))), RT_DIR)>>
        conf    == <<join(the(config_dir), RT_DIR)>>
        runtime == IF env_runtime = {} THEN <<>> ELSE <<the(env_runtime)>>
        canon   == IF exe = {} THEN {} ELSE canonicalize(the(exe))
        exe_dir == IF canon = {} THEN {} ELSE parent(the(canon))
    IN  IF \/ (env_cargo # {} /\ parent(the(env_cargo)) = {})
           \/ config_dir = {}
           \/ exe_dir = {}
        THEN [ok |-> FALSE, dirs |-> <<>>]
        ELSE [ok |-> TRUE,
              dirs |-> cargo \o runtime \o conf \o <<join(the(exe_dir), RT_DIR)>>]

\* prioritize_runtime_dirs: [ok |-> FALSE] when one of its unwraps or
\* config_dir() panics, else the list, highest priority first
prioritize_runtime_dirs ==
    LET cargo   == IF env_cargo = {} THEN <<>>
                   ELSE <<join(the(parent(the(env_cargo))), RT_DIR)>>
        conf    == <<join(the(config_dir), RT_DIR)>>
        runtime == IF env_runtime = {} THEN <<>> ELSE <<the(env_runtime)>>
        canon   == IF exe = {} THEN {} ELSE canonicalize(the(exe))
        exe_dir == IF canon = {} THEN {} ELSE parent(the(canon))
    IN  IF \/ (env_cargo # {} /\ parent(the(env_cargo)) = {})
           \/ config_dir = {}
           \/ exe_dir = {}
        THEN [ok |-> FALSE, dirs |-> <<>>]
        ELSE [ok |-> TRUE,
              dirs |-> cargo \o conf \o runtime \o <<join(the(exe_dir), RT_DIR)>>]

\* the first access of the Lazy runs prioritize_runtime_dirs; a panic in it
\* poisons the Lazy for good
force_runtime_dirs ==
    IF RUNTIME_DIRS.state = "uninit"
    THEN IF prioritize_runtime_dirs.ok
         THEN [state |-> "init", dirs |-> prioritize_runtime_dirs.dirs]
         ELSE [state |-> "poisoned", dirs |-> <<>>]
    ELSE RUNTIME_DIRS

\* find_runtime_file that returns the last joined path that exists
find_runtime_file_last(rt_dirs, path) ==
    IF \E p \in 1..Len(rt_dirs) : join(rt_dirs[p], path) \in fs
    THEN LET last == CHOOSE p \in 1..Len(rt_dirs) :
                         /\ join(rt_dirs[p], path) \in fs
                         /\ \A q \in (p + 1)..Len(rt_dirs) : join(rt_dirs[q], path) \notin fs
         IN  {join(rt_dirs[last], path)}
    ELSE {}

\* find_runtime_file: Some of the first joined path that exists, or None
find_runtime_file(rt_dirs, path) ==
    IF \E p \in 1..Len(rt_dirs) : join(rt_dirs[p], path) \in fs
    THEN LET first == CHOOSE p \in 1..Len(rt_dirs) :
                         /\ join(rt_dirs[p], path) \in fs
                         /\ \A q \in 1..(p - 1) : join(rt_dirs[q], path) \notin fs
         IN  {join(rt_dirs[first], path)}
    ELSE {}

\* runtime_file on an initialized list
runtime_file(rt_dirs, path) ==
    IF find_runtime_file(rt_dirs, path) # {}
    THEN the(find_runtime_file(rt_dirs, path))
    ELSE IF rt_dirs = <<>> THEN <<>> ELSE join(rt_dirs[Len(rt_dirs)], path)

MaxFiles == 2

RelPaths == {<<"queries", "python.scm">>, <<"/", "abs", "python.scm">>}

\* every directory some environment puts on the list
CandidateDirs ==
    { <<"/", "ws", "runtime">>, <<"/", "cfg", "runtime">>, <<"/", "opt", "rt">>,
      <<"/", "home", ".config", "balpan", "runtime">>,
      <<"/", "opt", "balpan", "runtime">>, <<"/", "usr", "bin", "runtime">> }

CandidateFiles == {join(d, r) : d \in CandidateDirs, r \in RelPaths}

InitEnv ==
    /\ env_cargo \in {{}} \cup {{d} : d \in CargoDirs}
    /\ env_runtime \in {{}} \cup {{d} : d \in RuntimeEnvDirs}
    /\ env_config \in {{}, {<<"/", "cfg">>}}
    /\ base_strategy \in {{}} \cup {{d} : d \in StrategyDirs}
    /\ exe \in {{}, {ExeLink}, {ExeFile}}
    /\ fs \in {f \in SUBSET CandidateFiles : Cardinality(f) <= MaxFiles}

InitRuntime ==
    /\ InitEnv
    /\ RuntimeIdle
    /\ MergeIdle
    /\ ConfigIdle
    /\ AnnotateIdle
    /\ op = "none"

\* runtime_dirs(): the first access initializes the list
RuntimeDirs ==
    /\ RUNTIME_DIRS' = force_runtime_dirs
    /\ init_config' = IF RUNTIME_DIRS.state = "uninit" THEN env_config ELSE init_config
    /\ op' = "runtime_dirs"
    /\ UNCHANGED <<rel_path, rt_file, mergeVars, envVars, configVars, annotateVars>>

\* runtime_file(path): the first access initializes the list
RuntimeFile ==
    \E path \in RelPaths :
        /\ RUNTIME_DIRS' = force_runtime_dirs
        /\ init_config' = IF RUNTIME_DIRS.state = "uninit" THEN env_config ELSE init_config
        /\ rel_path' = path
        /\ rt_file' = IF force_runtime_dirs.state = "init"
                      THEN {runtime_file(force_runtime_dirs.dirs, path)}
                      ELSE {}
        /\ op' = "runtime_file"
        /\ UNCHANGED <<mergeVars, envVars, configVars, annotateVars>>

\* std::env::set_var("BALPAN_CONFIG_DIR", dir)
SetConfigDir ==
    \E dir \in ConfigEnvDirs :
        /\ env_config' = {dir}
        /\ op' = "set_var"
        /\ UNCHANGED <<env_cargo, env_runtime, base_strategy, exe, fs>>
        /\ UNCHANGED <<mergeVars, runtimeVars, configVars, annotateVars>>

\* std::env::remove_var("BALPAN_CONFIG_DIR")
RemoveConfigDir ==
    /\ env_config' = {}
    /\ op' = "remove_var"
    /\ UNCHANGED <<env_cargo, env_runtime, base_strategy, exe, fs>>
    /\ UNCHANGED <<mergeVars, runtimeVars, configVars, annotateVars>>

Next == RuntimeDirs \/ RuntimeFile \/ SetConfigDir \/ RemoveConfigDir

Spec == InitRuntime /\ [][Next]_vars

(***************************************************************************)
(* The configuration file cell.  initialize_config_file runs in two steps, *)
(* the evaluation of its `config_file` and CONFIG_FILE.set, so that calls  *)
(* of several threads interleave.                                          *)
(***************************************************************************)
NumThreads == 2

MaxCalls == 3

Threads == 1..NumThreads

CONFIG_TOML == <<"config.toml">>

\* the Some(path) arguments of initialize_config_file
SpecifiedFiles == {<<"/", "etc", "balpan.toml">>, <<"/", "etc", "other.toml">>}

InitConfig ==
    /\ env_config \in {{}, {<<"/", "cfg">>}}
    /\ base_strategy \in {{}} \cup {{d} : d \in StrategyDirs}
    /\ fs \in {{}, {<<"/", "cfg">>}}
    /\ env_cargo = {}
    /\ env_runtime = {}
    /\ exe = {}
    /\ CONFIG_FILE = {}
    /\ call_pc = [t \in Threads |-> "idle"]
    /\ call_file = [t \in Threads |-> <<>>]
    /\ calls = 0
    /\ first_set = {}
    /\ cf_result = {}
    /\ RuntimeIdle
    /\ MergeIdle
    /\ AnnotateIdle
    /\ op = "none"

\* a set that overwrites a full cell
set_overwrite(cell, value) == {value}

\* CONFIG_FILE.set(value).ok(): a full cell keeps its value
set(cell, value) == IF cell = {} THEN {value} ELSE cell

\* initialize_config_file(Some(file)), up to the set
InitializeSpecified(t) ==
    \E file \in SpecifiedFiles :
        /\ call_pc[t] = "idle"
        /\ calls < MaxCalls
        /\ calls' = calls + 1
        /\ call_file' = [call_file EXCEPT ![t] = file]
        /\ call_pc' = [call_pc EXCEPT ![t] = "set"]
        /\ op' = "initialize"
        /\ UNCHANGED <<CONFIG_FILE, first_set, cf_result>>
        /\ UNCHANGED <<mergeVars, envVars, runtimeVars, annotateVars>>

\* initialize_config_file(None), up to the set: the configuration directory
\* is created when it is missing, and a failure to create it is ignored
InitializeDefault(t) ==
    /\ call_pc[t] = "idle"
    /\ calls < MaxCalls
    /\ config_dir # {}
    /\ calls' = calls + 1
    /\ fs' \in {fs, fs \cup config_dir}
    /\ call_file' = [call_file EXCEPT ![t] = join(the(config_dir), CONFIG_TOML)]
    /\ call_pc' = [call_pc EXCEPT ![t] = "set"]
    /\ op' = "initialize"
    /\ UNCHANGED <<CONFIG_FILE, first_set, cf_result>>
    /\ UNCHANGED <<env_cargo, env_runtime, env_config, base_strategy, exe>>
    /\ UNCHANGED <<mergeVars, runtimeVars, annotateVars>>

\* initialize_config_file(None) when config_dir() panics: the call ends there
InitializePanic(t) ==
    /\ call_pc[t] = "idle"
    /\ calls < MaxCalls
    /\ config_dir = {}
    /\ calls' = calls + 1
    /\ op' = "initialize"
    /\ UNCHANGED <<CONFIG_FILE, call_pc, call_file, first_set, cf_result>>
    /\ UNCHANGED <<mergeVars, envVars, runtimeVars, annotateVars>>

\* the last statement of initialize_config_file
SetConfigFile(t) ==
    /\ call_pc[t] = "set"
    /\ CONFIG_FILE' = set(CONFIG_FILE, call_file[t])
    /\ first_set' = IF first_set = {} THEN {call_file[t]} ELSE first_set
    /\ call_pc' = [call_pc EXCEPT ![t] = "idle"]
    /\ call_file' = [call_file EXCEPT ![t] = <<>>]
    /\ op' = "set"
    /\ UNCHANGED <<calls, cf_result>>
    /\ UNCHANGED <<mergeVars, envVars, runtimeVars, annotateVars>>

\* config_file(): the cell's path, or the default one of the environment as
\* it is now ({} when config_dir() panics)
config_file ==
    IF CONFIG_FILE # {}
    THEN CONFIG_FILE
    ELSE IF config_dir = {} THEN {} ELSE {join(the(config_dir), CONFIG_TOML)}

ConfigFile ==
    /\ cf_result' = config_file
    /\ op' = "config_file"
    /\ UNCHANGED <<CONFIG_FILE, call_pc, call_file, calls, first_set>>
    /\ UNCHANGED <<mergeVars, envVars, runtimeVars, annotateVars>>

NextConfig ==
    \/ \E t \in Threads : InitializeSpecified(t)
    \/ \E t \in Threads : InitializeDefault(t)
    \/ \E t \in Threads : InitializePanic(t)
    \/ \E t \in Threads : SetConfigFile(t)
    \/ ConfigFile
    \/ SetConfigDir
    \/ RemoveConfigDir

SpecConfig == InitConfig /\ [][NextConfig]_vars

(***************************************************************************)
(* Annotation of a Python file.  The text is the sequence of its lines; a  *)
(* line is its statement kind and its leading indentation, counted in      *)
(* indentation units.  Offsets into the text are counted in lines.         *)
(***************************************************************************)
MaxLines == 6

MaxIndent == 2

Line(kind, indent) == [kind |-> kind, indent |-> indent]

IsDefinition(line) == line.kind \in {"class", "def"}

\* the last line of the text that is not blank
LastCode(text) ==
    text[CHOOSE p \in 1..Len(text) :
            /\ text[p].kind # "blank"
            /\ \A q \in (p + 1)..Len(text) : text[q].kind = "blank"]

\* the lines that may follow `text` in a well-formed file: a decorator is
\* followed by a decorator or a definition of its indentation, the body of a
\* definition is indented by one unit more, and a blank line stands before
\* the first line of a definition
NextLines(text) ==
    IF text = <<>>
    THEN {Line(k, 0) : k \in {"class", "def", "decorator", "stmt"}}
    ELSE LET code == LastCode(text)
             prev == text[Len(text)]
             body == IF IsDefinition(code) /\ code.indent < MaxIndent /\ prev.kind # "blank"
                     THEN {Line(k, code.indent + 1) :
                              k \in {"docstring", "stmt", "class", "def", "decorator"}}
                     ELSE {}
             after == {Line(k, n) : k \in IF prev.kind = "blank"
                                          THEN {"class", "def", "decorator"}
                                          ELSE {"stmt", "class", "def", "decorator"},
                                    n \in 0..code.indent}
             blank == IF prev.kind = "blank" THEN {} ELSE {Line("blank", 0)}
         IN  IF code.kind = "decorator"
             THEN {Line(k, code.indent) : k \in {"decorator", "class", "def"}}
             ELSE body \cup after \cup blank

\* a file can be analyzed when it does not end inside a decorated definition
Complete(text) ==
    /\ text # <<>>
    /\ text[Len(text)].kind \notin {"decorator", "blank"}

\* first_line that takes the line of the definition itself
first_line_of_def(text, d) == d

\* the first line of the definition at line d: the first of the decorators
\* that immediately precede it, or d itself
first_line(text, d) ==
    CHOOSE p \in 1..d :
        /\ \A q \in p..(d - 1) : text[q].kind = "decorator"
        /\ (p > 1 => text[p - 1].kind # "decorator")

\* the definition that encloses line d: the nearest header above it with a
\* smaller indentation, 0 at the top level
enclosing(text, d) ==
    IF \E p \in 1..(d - 1) : IsDefinition(text[p]) /\ text[p].indent < text[d].indent
    THEN CHOOSE p \in 1..(d - 1) :
            /\ IsDefinition(text[p]) /\ text[p].indent < text[d].indent
            /\ \A q \in (p + 1)..(d - 1) :
                  ~(IsDefinition(text[q]) /\ text[q].indent < text[d].indent)
    ELSE 0

category(text, d) ==
    IF first_line(text, d) < d THEN "decorated-definition"
    ELSE IF text[d].kind = "class" THEN "class"
    ELSE IF enclosing(text, d) # 0 /\ text[enclosing(text, d)].kind = "class"
         THEN "method"
         ELSE "function"

\* the DefinitionSite of the definition at line d
site(text, d) ==
    [ category    |-> category(text, d),
      anchor      |-> first_line(text, d),
      indentation |-> text[first_line(text, d)].indent,
      depth       |-> text[d].indent ]

\* Definition Locator: one site per definition, by ascending anchor
locate(text) ==
    LET upto[n \in 0..Len(text)] ==
            IF n = 0 THEN <<>>
            ELSE IF IsDefinition(text[n]) THEN Append(upto[n - 1], site(text, n))
                 ELSE upto[n - 1]
    IN  upto[Len(text)]

\* the marker line of a site: its indentation, the comment token, the payload
marker(s) == Line("marker", s.indentation)

\* the text with `line` inserted immediately before the line at `anchor`
insert(text, anchor, line) ==
    SubSeq(text, 1, anchor - 1) \o <<line>> \o SubSeq(text, anchor, Len(text))

RECURSIVE apply(_, _)
RECURSIVE apply_ascending(_, _)

\* apply from the lowest anchor to the highest, the anchors taken as they are
apply_ascending(text, sites) ==
    IF sites = <<>>
    THEN text
    ELSE LET s == sites[1]
         IN  apply_ascending(insert(text, s.anchor, marker(s)), SubSeq(sites, 2, Len(sites)))

\* Text Patcher: the sites are applied from the highest anchor to the lowest
apply(text, sites) ==
    IF sites = <<>>
    THEN text
    ELSE LET s == sites[Len(sites)]
         IN  apply(insert(text, s.anchor, marker(s)), SubSeq(sites, 1, Len(sites) - 1))

InitAnnotate ==
    /\ source_code = <<>>
    /\ annotated = <<>>
    /\ apc = "edit"
    /\ EnvIdle
    /\ RuntimeIdle
    /\ ConfigIdle
    /\ MergeIdle
    /\ op = "none"

\* the file is written, a line at a time
AppendLine ==
    \E line \in NextLines(source_code) :
        /\ apc = "edit"
        /\ Len(source_code) < MaxLines
        /\ source_code' = Append(source_code, line)
        /\ UNCHANGED <<annotated, apc, op>>
        /\ UNCHANGED <<mergeVars, envVars, runtimeVars, configVars>>

\* the analysis of the file: locate the definitions, patch the text
Annotate ==
    /\ apc = "edit"
    /\ Complete(source_code)
    /\ annotated' = apply(source_code, locate(source_code))
    /\ apc' = "done"
    /\ UNCHANGED <<source_code, op>>
    /\ UNCHANGED <<mergeVars, envVars, runtimeVars, configVars>>

NextAnnotate == AppendLine \/ Annotate

SpecAnnotate == InitAnnotate /\ [][NextAnnotate]_vars

(***************************************************************************)
(* Properties of the merge.                                                *)
(***************************************************************************)
IsArrayMerge == merged # NoVal /\ left.t = "array" /\ right.t = "array"

IsTableMerge == merged # NoVal /\ left.t = "table" /\ right.t = "table"

\* the indexes of the items that carry the name n (a Some)
WithName(items, n) == {p \in 1..Len(items) : get_name(items[p]) = n}

NamesOf(items) == UNION {get_name(items[p]) : p \in 1..Len(items)}

\* no two items carry the same name
UniqueNames(items) ==
    \A p, q \in 1..Len(items) :
        (p # q /\ get_name(items[p]) # {}) => get_name(items[p]) # get_name(items[q])

\* the items of a sequence at the indexes of I, in their order
ItemsAt(items, I) ==
    LET upto[n \in 0..Len(items)] ==
            IF n = 0 THEN <<>>
            ELSE IF n \in I THEN Append(upto[n - 1], items[n]) ELSE upto[n - 1]
    IN  upto[Len(items)]

\* l and r merged into e key by key: the union of the keys, the keys of one
\* side only with that side's value
KeyUnion(e, l, r) ==
    /\ Keys(e) = Keys(l) \cup Keys(r)
    /\ \A k \in Keys(l) \ Keys(r) : e.m[k] = l.m[k]
    /\ \A k \in Keys(r) \ Keys(l) : e.m[k] = r.m[k]

Nix(payload) == Table(Entry("name", Str("nix")) @@ payload)

LastWithName(items, n) ==
    items[CHOOSE p \in WithName(items, n) : \A q \in WithName(items, n) : q <= p]

\* every array that r holds, directly or in a table of its own, is e's array
\* under the same keys
ArraysOf(r, e) ==
    \A k \in Keys(r) :
        /\ r.m[k].t = "array" => (k \in Keys(e) /\ e.m[k] = r.m[k])
        /\ r.m[k].t = "table" =>
              \A k2 \in Keys(r.m[k]) :
                  r.m[k].m[k2].t = "array" =>
                      /\ k \in Keys(e)
                      /\ e.m[k].t = "table"
                      /\ k2 \in Keys(e.m[k])
                      /\ e.m[k].m[k2] = r.m[k].m[k2]

IsDocument(v) == v.t = "table" /\ "language" \in Keys(v) /\ v.m["language"].t = "array"

\* C3: when two documents are merged at depth 3 and a name has an entry on
\* both sides, every array the right entry of that name holds (directly, or
\* inside a table such as language-server) is in the result's entry of that
\* name exactly the right side's array, whatever the left array held.
C3_NestedArraysReplaced ==
    ( /\ merged # NoVal
      /\ merge_depth = LanguageMergeDepth
      /\ IsDocument(left) /\ IsDocument(right) ) =>
        /\ IsDocument(merged)
        /\ \A n \in {{x} : x \in NamesOf(Languages(left)) \cap NamesOf(Languages(right))} :
              /\ WithName(Languages(merged), n) # {}
              /\ ArraysOf(LastWithName(Languages(right), n),
                          LastWithName(Languages(merged), n))

\* language-server.args = ["a", "b"] on the left, ["lsp"] on the right
C3_Witness ==
    /\ merged # NoVal
    /\ merge_depth = LanguageMergeDepth
    /\ IsDocument(left) /\ IsDocument(right) /\ IsDocument(merged)
    /\ \E i \in 1..Len(Languages(left)), j \in 1..Len(Languages(right)) :
          LET l == Languages(left)[i]
              r == Languages(right)[j]
          IN  /\ get_name(l) = {"ts"} /\ get_name(r) = {"ts"}
              /\ "language-server" \in Keys(l) \cap Keys(r)
              /\ Len(l.m["language-server"].m["args"].a) = 2
              /\ LastWithName(Languages(merged), {"ts"}).m["language-server"].m["args"]
                    = Array(<<Str("lsp")>>)

AllLayersMerged == pending = <<>> /\ Len(applied) = 3

LayerNames == UNION {NamesOf(Languages(applied[p])) : p \in 1..Len(applied)}

\* C4 as claimed: for any three language lists, the merged list has no two
\* entries of the same name and holds every name of every layer.
C4_AnyLayers ==
    AllLayersMerged =>
        /\ UniqueNames(Languages(merged))
        /\ NamesOf(Languages(merged)) = LayerNames

\* C4: when no two entries of the built-in list carry the same name, the
\* list merged from the built-in, user and workspace documents has no two
\* entries of the same name, and every name of every layer occurs in it.
C4_UniqueBuiltin ==
    (AllLayersMerged /\ UniqueNames(Languages(applied[1]))) =>
        /\ UniqueNames(Languages(merged))
        /\ NamesOf(Languages(merged)) = LayerNames

\* two built-in names, a user list that names one language twice, and a
\* workspace list that names a built-in language
C4_Witness ==
    /\ AllLayersMerged
    /\ UniqueNames(Languages(applied[1]))
    /\ NamesOf(Languages(applied[1])) = Names
    /\ ~UniqueNames(Languages(applied[2]))
    /\ NamesOf(Languages(applied[3])) # {}
    /\ Cardinality(WithName(Languages(merged), {"nix"})) = 1

\* C9 as claimed: at a depth > 0 every left element keeps its index, a
\* matched one replaced by the merged element of its name.
C9_InPlace ==
    (IsArrayMerge /\ merge_depth > 0) =>
        /\ Len(merged.a) >= Len(left.a)
        /\ \A p \in 1..Len(left.a) :
              IF get_name(left.a[p]) # {} /\ WithName(right.a, get_name(left.a[p])) # {}
              THEN get_name(merged.a[p]) = get_name(left.a[p])
              ELSE merged.a[p] = left.a[p]

\* the left index a right element is matched to, 0 when it is not matched
MatchOf(r) == IF get_name(r) = {} THEN 0 ELSE position(left.a, get_name(r))

\* C9: in an array merge at depth > 0 whose right elements carry distinct
\* names, a right element matched by name to a left element removes that
\* left element from its index; the result is the unmatched left elements
\* in their order, followed by one element per right element in right-array
\* order: the merged element for a matched one, the right element itself
\* for an unmatched or nameless one.
C9_MatchedMoveLast ==
    (IsArrayMerge /\ merge_depth > 0 /\ UniqueNames(right.a)) =>
        LET matched == {MatchOf(right.a[j]) : j \in 1..Len(right.a)}
            tail == [j \in 1..Len(right.a) |->
                        IF MatchOf(right.a[j]) = 0
                        THEN right.a[j]
                        ELSE merge_toml_values(left.a[MatchOf(right.a[j])], right.a[j],
                                               merge_depth - 1)]
        IN  merged.a = ItemsAt(left.a, (1..Len(left.a)) \ matched) \o tail

\* the first of two left elements is matched and now follows the second
C9_Witness ==
    /\ IsArrayMerge
    /\ merge_depth > 0
    /\ UniqueNames(right.a)
    /\ Len(left.a) = 2 /\ Len(right.a) = 2
    /\ get_name(left.a[1]) = {"nix"} /\ get_name(left.a[2]) = {"ts"}
    /\ get_name(right.a[1]) = {} /\ get_name(right.a[2]) = {"nix"}
    /\ merged.a[1] = left.a[2]
    /\ merged.a[2] = right.a[1]
    /\ get_name(merged.a[3]) = {"nix"}

(***************************************************************************)
(* Properties of the runtime directories and of the configuration file.    *)
(***************************************************************************)
\* 1 for a variable that is set, 0 for one that is not
IsSet(variable) == IF variable = {} THEN 0 ELSE 1

\* the configuration directory of the environment the list was built in
ConfigDirAtInit ==
    IF init_config # {} THEN the(init_config) ELSE the(base_strategy) \o <<"balpan">>

\* C7: once built, the runtime directory list has at least two entries and
\* is, in this order: the `runtime` directory beside the manifest directory
\* (only when CARGO_MANIFEST_DIR is set), <config dir>/runtime, the
\* BALPAN_RUNTIME directory (only when set), and last the `runtime`
\* directory beside the canonicalized executable; it is the list of the
\* environment it was built in, whatever the environment becomes.
C7_RuntimeDirsOrder ==
    RUNTIME_DIRS.state = "init" =>
        LET dirs == RUNTIME_DIRS.dirs
            c == IsSet(env_cargo)
            r == IsSet(env_runtime)
        IN  /\ Len(dirs) >= 2
            /\ Len(dirs) = c + 1 + r + 1
            /\ c = 1 => dirs[1] = SubSeq(the(env_cargo), 1, Len(the(env_cargo)) - 1)
                                      \o <<"runtime">>
            /\ dirs[c + 1] = ConfigDirAtInit \o <<"runtime">>
            /\ r = 1 => dirs[c + 2] = the(env_runtime)
            /\ dirs[Len(dirs)] = <<"/", "opt", "balpan", "runtime">>

\* all four directories, the executable run through its link, and
\* BALPAN_CONFIG_DIR changed since the list was built
C7_Witness ==
    /\ RUNTIME_DIRS.state = "init"
    /\ Len(RUNTIME_DIRS.dirs) = 4
    /\ exe = {ExeLink}
    /\ init_config = {}
    /\ env_config = {<<"/", "tmp">>}
    /\ RUNTIME_DIRS.dirs[2] = <<"/", "home", ".config", "balpan", "runtime">>

\* the indexes of the runtime directories under which the path exists
Holders(path) ==
    {p \in 1..Len(RUNTIME_DIRS.dirs) : join(RUNTIME_DIRS.dirs[p], path) \in fs}

\* C8: runtime_file returns the path joined to the highest-priority runtime
\* directory under which it exists, never a lower-priority copy; when it
\* exists under none, the path joined to the last directory; never the
\* empty path.
C8_RuntimeFile ==
    (op = "runtime_file" /\ RUNTIME_DIRS.state = "init") =>
        /\ rt_file # {}
        /\ the(rt_file) # <<>>
        /\ IF Holders(rel_path) # {}
           THEN \E p \in Holders(rel_path) :
                   /\ the(rt_file) = join(RUNTIME_DIRS.dirs[p], rel_path)
                   /\ \A q \in Holders(rel_path) : p <= q
           ELSE the(rt_file) = join(RUNTIME_DIRS.dirs[Len(RUNTIME_DIRS.dirs)], rel_path)

\* the file exists under two directories of different priority
C8_Witness ==
    /\ op = "runtime_file"
    /\ RUNTIME_DIRS.state = "init"
    /\ ~is_absolute(rel_path)
    /\ Cardinality(Holders(rel_path)) = 2
    /\ \E p \in Holders(rel_path) :
          /\ p > 1
          /\ \A q \in Holders(rel_path) : p <= q
          /\ rt_file = {join(RUNTIME_DIRS.dirs[p], rel_path)}

\* the default configuration file of the environment as it is now
DefaultConfigFile == {join(the(config_dir), CONFIG_TOML)}

\* C10: the configuration file path is set at most once: the cell holds the
\* path of the first initialize_config_file call to run its set, no later
\* step changes it, and config_file() returns it; while no call has run its
\* set, config_file() returns <config dir>/config.toml of the environment
\* as it is then and leaves the cell empty.
C10_SetOnce ==
    [][ /\ CONFIG_FILE # {} => CONFIG_FILE' = CONFIG_FILE
        /\ CONFIG_FILE' = first_set'
        /\ op' = "config_file" =>
              /\ CONFIG_FILE' = CONFIG_FILE
              /\ first_set # {} => cf_result' = first_set
              /\ (first_set = {} /\ config_dir # {}) => cf_result' = DefaultConfigFile
      ]_vars

\* config_file() returns the first call's path after a second call has run
\* its set with another path and BALPAN_CONFIG_DIR has changed
C10_Witness ==
    /\ op = "config_file"
    /\ calls >= 2
    /\ \A t \in Threads : call_pc[t] = "idle"
    /\ first_set = {<<"/", "cfg", "config.toml">>}
    /\ cf_result = first_set
    /\ env_config = {<<"/", "tmp">>}

(***************************************************************************)
(* Properties of the annotation.                                           *)
(***************************************************************************)
\* the lines of the input that are definitions
Definitions == {d \in 1..Len(source_code) : IsDefinition(source_code[d])}

\* the first line of the unit of definition d: the least line from which
\* only decorators lead to d
UnitStart(d) ==
    CHOOSE p \in 1..d :
        /\ \A q \in p..(d - 1) : source_code[q].kind = "decorator"
        /\ \A p2 \in 1..(p - 1) : \E q \in p2..(d - 1) : source_code[q].kind # "decorator"

\* the first lines of the units of all definitions
UnitStarts == {UnitStart(d) : d \in Definitions}

\* where line k of the input stands in the output: one marker is added for
\* every unit that starts at or above it
Moved(k) == k + Cardinality({f \in UnitStarts : f <= k})

IsOriginal(line) == line.kind # "marker"

IsMarker(line) == line.kind = "marker"

\* C5: in the output, the first line of every definition, at any nesting
\* depth, has exactly one marker line immediately above it, with the same
\* indentation; there is one marker per definition, and deleting the marker
\* lines gives back the input, line for line.
C5_MarkerAboveEveryDefinition ==
    apc = "done" =>
        /\ SelectSeq(annotated, IsOriginal) = source_code
        /\ Len(SelectSeq(annotated, IsMarker)) = Cardinality(Definitions)
        /\ \A d \in Definitions :
              LET first == UnitStart(d)
                  at == Moved(first)
              IN  /\ at <= Len(annotated)
                  /\ annotated[at] = source_code[first]
                  /\ annotated[at - 1] = Line("marker", source_code[first].indent)
                  /\ at > 2 => annotated[at - 2].kind # "marker"

\* the nested-class fixture: a class, a field, a blank line, a nested class
C5_Witness ==
    /\ apc = "done"
    /\ source_code = << Line("class", 0), Line("stmt", 1), Line("blank", 0),
                        Line("class", 1), Line("stmt", 2) >>
    /\ annotated = << Line("marker", 0), Line("class", 0), Line("stmt", 1),
                      Line("blank", 0), Line("marker", 1), Line("class", 1),
                      Line("stmt", 2) >>

\* C6: a decorated definition has its one marker immediately above its
\* first decorator, at that line's indentation, and none between a
\* decorator and the line after it; a docstring under a definition does not
\* suppress that definition's marker; there are as many markers as
\* definitions.
C6_MarkerAboveFirstDecorator ==
    apc = "done" =>
        /\ Len(SelectSeq(annotated, IsMarker)) = Cardinality(Definitions)
        /\ \A d \in Definitions :
              LET first == UnitStart(d)
              IN  /\ first < d =>
                        /\ Moved(d) <= Len(annotated)
                        /\ annotated[Moved(first)] = source_code[first]
                        /\ annotated[Moved(first) - 1]
                              = Line("marker", source_code[first].indent)
                        /\ \A k \in (first + 1)..d :
                              /\ annotated[Moved(k)] = source_code[k]
                              /\ annotated[Moved(k) - 1] = source_code[k - 1]
                  /\ (d < Len(source_code) /\ source_code[d + 1].kind = "docstring") =>
                        /\ Moved(first) <= Len(annotated)
                        /\ annotated[Moved(first) - 1].kind = "marker"

\* a class with a docstring and two decorated methods: three markers
C6_Witness ==
    /\ apc = "done"
    /\ source_code = << Line("class", 0), Line("docstring", 1),
                        Line("decorator", 1), Line("def", 1),
                        Line("decorator", 1), Line("def", 1) >>
    /\ annotated = << Line("marker", 0), Line("class", 0), Line("docstring", 1),
                      Line("marker", 1), Line("decorator", 1), Line("def", 1),
                      Line("marker", 1), Line("decorator", 1), Line("def", 1) >>

=============================================================================
